---- MODULE Spec2Model ----
(***************************************************************************)
(* The iBeacon coordinator (homeassistant/components/ibeacon/coordinator.py)*)
(* as a state machine.  The coordinator's fields are the VARIABLES; every   *)
(* callback of the class is an operator from a coordinator record to the    *)
(* coordinator record it leaves behind, and an action applies one callback  *)
(* to the current fields.  Identifiers ("uuid_major_minor_address") are     *)
(* modelled as the sequence of their "_"-separated fields, so formatting is *)
(* concatenation and the registry restore's split / count("_") is Len.      *)
(***************************************************************************)
EXTENDS Integers, Sequences, FiniteSets, Bags, TLC

VARIABLES
    _ignore_addresses,         \* set[str]
    _last_rssi_by_unique_id,   \* dict unique_id -> rssi
    _group_ids_by_address,     \* dict address -> set of group ids
    _unique_ids_by_address,    \* dict address -> set of unique ids
    _unique_ids_by_group_id,   \* dict group id -> set of unique ids
    _addresses_by_group_id,    \* dict group id -> set of addresses
    _unavailable_trackers,     \* dict address -> cancel callback (its keys)
    _group_ids_random_macs,    \* set of group ids
    _last_seen_by_group_id,    \* dict group id -> service info (its .time, the one field read)
    _unavailable_group_ids,    \* set of group ids
    _min_rssi,                 \* entry.options.get(CONF_MIN_RSSI) or DEFAULT_MIN_RSSI
    entry_data,                \* entry.data[CONF_IGNORE_ADDRESSES], a sorted list
    devices,                   \* device registry: the identifiers (domain, id)
    bt_watches,                \* bluetooth: address -> callbacks registered by async_track_unavailable
    now,                       \* MONOTONIC_TIME()
    phase,                     \* "init" (constructed), "running" (async_start done), "stopped"
    raised,                    \* the latest callback ended in a KeyError
    new_count,                 \* history: DeviceNew signals sent so far, per id
    unavailable_count,         \* history: DeviceUnavailable signals per id since its latest new / seen
    unavailable_unheard,       \* history: DeviceUnavailable signals per id since the latest accepted
                               \*   fixed-MAC observation of its address
    name_input,                \* async_name: <<>> or <<its arguments>>
    name_output                \* async_name: <<>> or <<the name it returned>>

vars == << _ignore_addresses, _last_rssi_by_unique_id, _group_ids_by_address,
           _unique_ids_by_address, _unique_ids_by_group_id, _addresses_by_group_id,
           _unavailable_trackers, _group_ids_random_macs, _last_seen_by_group_id,
           _unavailable_group_ids, _min_rssi, entry_data, devices, bt_watches,
           now, phase, raised, new_count, unavailable_count, unavailable_unheard,
           name_input, name_output >>

(***************************************************************************)
(* Program constants.  const.py is not part of the sources at hand; the     *)
(* thresholds are kept small so that both anomaly branches are reached.     *)
(***************************************************************************)
MAX_IDS == 3
UNAVAILABLE_TIMEOUT == 1
DEFAULT_MIN_RSSI == -85
IBEACON_DOMAIN == "ibeacon"

(***************************************************************************)
(* Bounds of the model.                                                     *)
(***************************************************************************)
MaxTime == 2

Addresses == {"A1", "A2", "A3"}
AddressRank == [a \in Addresses |-> CASE a = "A1" -> 1 [] a = "A2" -> 2 [] a = "A3" -> 3]

\* What the external parser yields for an iBeacon payload: {uuid, major, minor}.
Beacons == { [uuid |-> "U1", major |-> 1, minor |-> 1],
             [uuid |-> "U1", major |-> 1, minor |-> 2],
             [uuid |-> "U2", major |-> 1, minor |-> 1] }

\* A payload is <<>> (does not parse as an iBeacon) or <<parsed>>.
Payloads == {<<>>} \cup {<<p>> : p \in Beacons}
RSSIs == {-90, -60}

\* The beacons each address advertises in the modelled environment: A1 sends
\* every beacon (an address flooding with identities), the first beacon is
\* sent from every address (a beacon rotating its address).
Advertised ==
    {<<a, p>> \in Addresses \X Beacons :
        a = "A1" \/ p = [uuid |-> "U1", major |-> 1, minor |-> 1]}

\* The advertisements bluetooth may hold or deliver at time t
ServiceInfos(t) ==
    {si \in [address : Addresses, rssi : RSSIs, payload : Payloads, time : {t}] :
        si.payload = <<>> \/ <<si.address, si.payload[1]>> \in Advertised}

----------------------------------------------------------------------------
(* Python dict and formatting helpers *)

EmptyDict == [k \in {} |-> {}]
Has(d, k) == k \in DOMAIN d
Put(d, k, v) == [x \in (DOMAIN d) \cup {k} |-> IF x = k THEN v ELSE d[x]]
Pop(d, k) == [x \in (DOMAIN d) \ {k} |-> d[x]]
SetDefaultAdd(d, k, v) == Put(d, k, (IF Has(d, k) THEN d[k] ELSE {}) \cup {v})

\* str() of the small integers that occur as major / minor
Str(n) == CASE n = 0 -> "0" [] n = 1 -> "1" [] n = 2 -> "2" [] OTHER -> "n"

\* f"{parsed.uuid}_{parsed.major}_{parsed.minor}"
group_id_of(parsed) == << parsed.uuid, Str(parsed.major), Str(parsed.minor) >>

\* f"{group_id}_{address}"
unique_id_of(group_id, address) == Append(group_id, address)

\* unique_id.split("_")[-1]
last_field(unique_id) == unique_id[Len(unique_id)]

\* parse(service_info): the parsed advertisement, or <<>> for None
parse(service_info) == service_info.payload

RECURSIVE sorted(_)
\* sorted(set of addresses)
sorted(S) ==
    IF S = {} THEN <<>>
    ELSE LET m == CHOOSE a \in S : \A b \in S : AddressRank[a] <= AddressRank[b]
         IN  <<m>> \o sorted(S \ {m})

SeqToSet(q) == {q[i] : i \in 1..Len(q)}

GroupIds == {group_id_of(p) : p \in Beacons}
UniqueIds == {unique_id_of(g, a) : g \in GroupIds, a \in Addresses}

----------------------------------------------------------------------------
(* Display names.  A Python str is the sequence of its characters.          *)

\* str.replace(old, new) for single characters
Replace(str, old, new) == [i \in 1..Len(str) |-> IF str[i] = old THEN new ELSE str[i]]

RECURSIVE Split(_, _)
\* str.split(sep) for a single character
Split(str, sep) ==
    LET at == {i \in 1..Len(str) : str[i] = sep} IN
    IF at = {} THEN << str >>
    ELSE LET i == CHOOSE x \in at : \A y \in at : x <= y
         IN  << SubSeq(str, 1, i - 1) >> \o Split(SubSeq(str, i + 1, Len(str)), sep)

\* str.upper() of one character (the hexadecimal letters and those of the names)
UpperChar(c) ==
    CASE c = "a" -> "A" [] c = "b" -> "B" [] c = "c" -> "C" [] c = "d" -> "D"
      [] c = "e" -> "E" [] c = "f" -> "F" [] c = "g" -> "G" [] c = "t" -> "T"
      [] OTHER -> c

\* str.upper()
Upper(str) == [i \in 1..Len(str) |-> UpperChar(str[i])]

\* str.endswith(suffix)
EndsWith(str, suffix) ==
    /\ Len(suffix) <= Len(str)
    /\ SubSeq(str, Len(str) - Len(suffix) + 1, Len(str)) = suffix

\* str[-4:]
LastFour(str) == IF Len(str) <= 4 THEN str ELSE SubSeq(str, Len(str) - 3, Len(str))

Digit(n) ==
    CASE n = 0 -> "0" [] n = 1 -> "1" [] n = 2 -> "2" [] n = 3 -> "3" [] n = 4 -> "4"
      [] n = 5 -> "5" [] n = 6 -> "6" [] n = 7 -> "7" [] n = 8 -> "8" [] n = 9 -> "9"

RECURSIVE Decimal(_)
\* str(n) of a natural number, as the f-string formats major and minor
Decimal(n) == IF n < 10 THEN << Digit(n) >> ELSE Decimal(n \div 10) \o << Digit(n % 10) >>

\* make_short_address (the address has at least two fields)
make_short_address(address) ==
    LET results == Split(Replace(address, "-", ":"), ":")
    IN  LastFour(Upper(results[Len(results) - 1]) \o Upper(results[Len(results)]))

\* async_name
async_name(service_info, parsed, unique_address) ==
    LET base_name ==
            IF service_info.address \in
                   {service_info.name, Replace(service_info.name, "_", ":")}
            THEN parsed.uuid \o <<" ">> \o Decimal(parsed.major)
                     \o <<".">> \o Decimal(parsed.minor)
            ELSE service_info.name
        short_address == make_short_address(service_info.address)
    IN  IF unique_address /\ ~EndsWith(base_name, short_address)
        THEN base_name \o <<" ">> \o short_address
        ELSE base_name

----------------------------------------------------------------------------
(* Dispatcher signals *)

DeviceNew(id, parsed) == [kind |-> "new", id |-> id, parsed |-> <<parsed>>]
DeviceSeen(id, parsed) == [kind |-> "seen", id |-> id, parsed |-> <<parsed>>]
DeviceUnavailable(id) == [kind |-> "unavailable", id |-> id, parsed |-> <<>>]

\* async_dispatcher_send
async_dispatcher_send(s, signal) == [s EXCEPT !.events = @ (+) SetToBag({signal})]

\* The entity platforms listening to SIGNAL_IBEACON_DEVICE_NEW create the
\* entity and with it the device record of that identifier.
device_new_listener(s, device_id) ==
    [s EXCEPT !.devices = @ \cup {<<IBEACON_DOMAIN, device_id>>}]

\* A dispatch that takes every update for a new device
dispatch_update_always_new(s, device_id, service_info, parsed, new, unique_address) ==
    device_new_listener(async_dispatcher_send(s, DeviceNew(device_id, parsed)), device_id)

\* _async_dispatch_update
_async_dispatch_update(s, device_id, service_info, parsed, new, unique_address) ==
    IF new
    THEN device_new_listener(async_dispatcher_send(s, DeviceNew(device_id, parsed)), device_id)
    ELSE async_dispatcher_send(s, DeviceSeen(device_id, parsed))

----------------------------------------------------------------------------
(* The callbacks of IBeaconCoordinator, each from the coordinator record s  *)
(* to the record it leaves.  s.raised is set where the Python code raises   *)
(* KeyError (dict.pop / dict[...] of an absent key); the rest of the        *)
(* callback is then skipped, as the exception unwinds it.                   *)

\* A cancel that forgets the tracker without calling it
cancel_tracker_keeps_watch(s, address) ==
    IF address \notin s._unavailable_trackers
    THEN [s EXCEPT !.raised = TRUE]
    ELSE [s EXCEPT !._unavailable_trackers = @ \ {address}]

\* _async_cancel_unavailable_tracker: self._unavailable_trackers.pop(address)()
_async_cancel_unavailable_tracker(s, address) ==
    IF address \notin s._unavailable_trackers
    THEN [s EXCEPT !.raised = TRUE]
    ELSE [s EXCEPT !._unavailable_trackers = @ \ {address},
                   !.bt_watches[address] = @ - 1]

\* An unavailable callback that leaves the watch of the address registered
handle_unavailable_keeps_watch(s, address) ==
    IF ~Has(s._unique_ids_by_address, address) THEN [s EXCEPT !.raised = TRUE]
    ELSE [s EXCEPT !.events = @ (+) SetToBag(
              {DeviceUnavailable(u) : u \in s._unique_ids_by_address[address]})]

\* _async_handle_unavailable
_async_handle_unavailable(s, address) ==
    LET s1 == _async_cancel_unavailable_tracker(s, address) IN
    IF s1.raised THEN s1
    ELSE IF ~Has(s1._unique_ids_by_address, address) THEN [s1 EXCEPT !.raised = TRUE]
    ELSE [s1 EXCEPT !.events = @ (+) SetToBag(
              {DeviceUnavailable(u) : u \in s1._unique_ids_by_address[address]})]

\* A purge that forgets the cached rssi but leaves the device records
purge_keeps_devices(s, unique_ids) ==
    [s EXCEPT !._last_rssi_by_unique_id = [u \in (DOMAIN @) \ unique_ids |-> @[u]]]

\* _async_purge_untrackable_entities
_async_purge_untrackable_entities(s, unique_ids) ==
    [s EXCEPT !.devices = @ \ {<<IBEACON_DOMAIN, u>> : u \in unique_ids},
              !._last_rssi_by_unique_id = [u \in (DOMAIN @) \ unique_ids |-> @[u]]]

\* _async_ignore_address
_async_ignore_address(s, address) ==
    LET s1 == [s EXCEPT !._ignore_addresses = @ \cup {address}]
        s2 == _async_cancel_unavailable_tracker(s1, address)
        s3 == [s2 EXCEPT !.entry_data = sorted(s2._ignore_addresses)]
    IN  IF s2.raised THEN s2
        ELSE IF ~Has(s3._unique_ids_by_address, address) THEN [s3 EXCEPT !.raised = TRUE]
        ELSE LET s4 == _async_purge_untrackable_entities(
                           s3, s3._unique_ids_by_address[address])
             IN  IF ~Has(s4._group_ids_by_address, address)
                 THEN [s4 EXCEPT !.raised = TRUE]
                 ELSE [s4 EXCEPT !._group_ids_by_address = Pop(@, address),
                                 !._unique_ids_by_address = Pop(@, address)]

\* A random-MAC update that takes a group for new whenever it is flagged unavailable
update_random_mac_new_when_unavailable(s, group_id, service_info, parsed) ==
    LET new == ~Has(s._last_seen_by_group_id, group_id)
               \/ group_id \in s._unavailable_group_ids
        s1 == [s EXCEPT !._last_seen_by_group_id = Put(@, group_id, service_info.time),
                        !._unavailable_group_ids = @ \ {group_id}]
    IN  _async_dispatch_update(s1, group_id, service_info, parsed, new, FALSE)

\* _async_update_ibeacon_with_random_mac
_async_update_ibeacon_with_random_mac(s, group_id, service_info, parsed) ==
    LET new == ~Has(s._last_seen_by_group_id, group_id)
        s1 == [s EXCEPT !._last_seen_by_group_id = Put(@, group_id, service_info.time),
                        !._unavailable_group_ids = @ \ {group_id}]
    IN  _async_dispatch_update(s1, group_id, service_info, parsed, new, FALSE)

\* _async_convert_random_mac_tracking
_async_convert_random_mac_tracking(s, group_id, service_info, parsed) ==
    LET s1 == [s EXCEPT !._group_ids_random_macs = @ \cup {group_id}] IN
    IF ~Has(s1._unique_ids_by_group_id, group_id) THEN [s1 EXCEPT !.raised = TRUE]
    ELSE LET s2 == _async_purge_untrackable_entities(
                       s1, s1._unique_ids_by_group_id[group_id])
             s3 == [s2 EXCEPT !._unique_ids_by_group_id = Pop(@, group_id)]
         IN  IF ~Has(s3._addresses_by_group_id, group_id)
             THEN [s3 EXCEPT !.raised = TRUE]
             ELSE _async_update_ibeacon_with_random_mac(
                      [s3 EXCEPT !._addresses_by_group_id = Pop(@, group_id)],
                      group_id, service_info, parsed)

\* _async_track_ibeacon_with_unique_address
_async_track_ibeacon_with_unique_address(s, address, group_id, unique_id) ==
    [s EXCEPT !._unique_ids_by_address = SetDefaultAdd(@, address, unique_id),
              !._group_ids_by_address = SetDefaultAdd(@, address, group_id),
              !._unique_ids_by_group_id = SetDefaultAdd(@, group_id, unique_id),
              !._addresses_by_group_id = SetDefaultAdd(@, group_id, address)]

\* An observation that registers no unavailability watch
ensure_tracker_skipped(s, address) == s

\* bluetooth.async_track_unavailable, registered unless the address has a tracker
ensure_unavailable_tracker(s, address) ==
    IF address \notin s._unavailable_trackers
    THEN [s EXCEPT !._unavailable_trackers = @ \cup {address},
                   !.bt_watches[address] = @ + 1]
    ELSE s

\* _async_update_ibeacon_with_unique_address up to the anomaly checks:
\* record the rssi, the associations and the unavailability watch
record_unique_address(s, group_id, service_info) ==
    LET address == service_info.address
        unique_id == unique_id_of(group_id, address)
        s1 == [s EXCEPT !._last_rssi_by_unique_id = Put(@, unique_id, service_info.rssi)]
        s2 == _async_track_ibeacon_with_unique_address(s1, address, group_id, unique_id)
    IN  ensure_unavailable_tracker(s2, address)

\* The address threshold taken one too high
address_anomaly_above(s, address) ==
    Cardinality(s._group_ids_by_address[address]) > MAX_IDS

\* len(self._group_ids_by_address[address]) >= MAX_IDS
address_anomaly(s, address) ==
    Cardinality(s._group_ids_by_address[address]) >= MAX_IDS

\* len(self._addresses_by_group_id[group_id]) >= MAX_IDS
group_anomaly(s, group_id) ==
    Cardinality(s._addresses_by_group_id[group_id]) >= MAX_IDS

\* The fixed-MAC update with the group check before the address check
update_unique_address_group_first(s, group_id, service_info, parsed) ==
    LET address == service_info.address
        unique_id == unique_id_of(group_id, address)
        new == ~Has(s._last_rssi_by_unique_id, unique_id)
        s3 == record_unique_address(s, group_id, service_info)
    IN  IF group_anomaly(s3, group_id)
        THEN _async_convert_random_mac_tracking(s3, group_id, service_info, parsed)
        ELSE IF address_anomaly(s3, address) THEN _async_ignore_address(s3, address)
        ELSE _async_dispatch_update(s3, unique_id, service_info, parsed, new, TRUE)

\* _async_update_ibeacon_with_unique_address
_async_update_ibeacon_with_unique_address(s, group_id, service_info, parsed) ==
    LET address == service_info.address
        unique_id == unique_id_of(group_id, address)
        new == ~Has(s._last_rssi_by_unique_id, unique_id)
        s3 == record_unique_address(s, group_id, service_info)
    IN  IF address_anomaly(s3, address) THEN _async_ignore_address(s3, address)
        ELSE IF group_anomaly(s3, group_id)
        THEN _async_convert_random_mac_tracking(s3, group_id, service_info, parsed)
        ELSE _async_dispatch_update(s3, unique_id, service_info, parsed, new, TRUE)

\* The early returns without the one for a weak signal
rejected_unless_weak(s, service_info) ==
    \/ service_info.address \in s._ignore_addresses
    \/ parse(service_info) = <<>>

\* The three early returns of _async_update_ibeacon
rejected(s, service_info) ==
    \/ service_info.address \in s._ignore_addresses
    \/ service_info.rssi < s._min_rssi
    \/ parse(service_info) = <<>>

\* _async_update_ibeacon
_async_update_ibeacon(s, service_info) ==
    IF rejected(s, service_info) THEN s
    ELSE LET parsed == parse(service_info)[1]
             group_id == group_id_of(parsed)
         IN  IF group_id \in s._group_ids_random_macs
             THEN _async_update_ibeacon_with_random_mac(s, group_id, service_info, parsed)
             ELSE _async_update_ibeacon_with_unique_address(s, group_id, service_info, parsed)

\* A stop that forgets the trackers without calling them
stop_clears_without_cancel(s) == [s EXCEPT !._unavailable_trackers = {}]

\* _async_stop
_async_stop(s) ==
    [s EXCEPT !.bt_watches = [a \in DOMAIN @ |->
                                 IF a \in s._unavailable_trackers THEN @[a] - 1 ELSE @[a]],
              !._unavailable_trackers = {}]

\* The timeout compared with >= for >
gone_unavailable_at_timeout(s, t) ==
    {g \in s._group_ids_random_macs :
        /\ g \notin s._unavailable_group_ids
        /\ Has(s._last_seen_by_group_id, g)
        /\ t - s._last_seen_by_group_id[g] >= UNAVAILABLE_TIMEOUT}

\* gone_unavailable of _async_check_unavailable_groups_with_random_macs
gone_unavailable(s, t) ==
    {g \in s._group_ids_random_macs :
        /\ g \notin s._unavailable_group_ids
        /\ Has(s._last_seen_by_group_id, g)
        /\ t - s._last_seen_by_group_id[g] > UNAVAILABLE_TIMEOUT}

\* _async_check_unavailable_groups_with_random_macs
_async_check_unavailable_groups_with_random_macs(s, t) ==
    LET gone == gone_unavailable(s, t) IN
    [s EXCEPT !._unavailable_group_ids = @ \cup gone,
              !.events = @ (+) SetToBag({DeviceUnavailable(g) : g \in gone})]

\* The unique ids _async_update_rssi sends a seen signal for; last(address) is
\* bluetooth.async_last_service_info: <<>> for None, else <<service_info>>
rssi_changed(s, last) ==
    {u \in DOMAIN s._last_rssi_by_unique_id :
        LET found == last[last_field(u)] IN
        /\ found # <<>>
        /\ found[1].rssi # s._last_rssi_by_unique_id[u]
        /\ parse(found[1]) # <<>>}

\* _async_update_rssi
_async_update_rssi(s, last) ==
    [s EXCEPT !.events = @ (+) SetToBag(
        {DeviceSeen(u, parse(last[last_field(u)][1])[1]) : u \in rssi_changed(s, last)})]

\* _async_update
_async_update(s, t, last) ==
    _async_update_rssi(_async_check_unavailable_groups_with_random_macs(s, t), last)

\* The unique ids of the registry's devices: the first identifier of DOMAIN
registry_unique_ids(s) == {d[2] : d \in {x \in s.devices : x[1] = IBEACON_DOMAIN}}

\* One device of _async_restore_from_registry
restore_unique_id(s, unique_id) ==
    IF Len(unique_id) = 4          \* unique_id.count("_") == 3
    THEN _async_track_ibeacon_with_unique_address(
             s, unique_id[4], SubSeq(unique_id, 1, 3), unique_id)
    ELSE IF Len(unique_id) = 3     \* unique_id.count("_") == 2
    THEN [s EXCEPT !._group_ids_random_macs = @ \cup {SubSeq(unique_id, 1, 3)}]
    ELSE s

RECURSIVE restore_all(_, _)
restore_all(s, ids) ==
    IF ids = {} THEN s
    ELSE LET u == CHOOSE x \in ids : TRUE
         IN  restore_all(restore_unique_id(s, u), ids \ {u})

\* _async_restore_from_registry
_async_restore_from_registry(s) == restore_all(s, registry_unique_ids(s))

RECURSIVE replay(_, _)
\* async_start's loop over bluetooth.async_discovered_service_info
replay(s, discovered) ==
    IF discovered = <<>> THEN s
    ELSE replay(_async_update_ibeacon(s, Head(discovered)), Tail(discovered))

\* async_start
async_start(s, discovered) == replay(_async_restore_from_registry(s), discovered)

----------------------------------------------------------------------------
(* The state machine *)

Ids == GroupIds \cup UniqueIds
Min(a, b) == IF a < b THEN a ELSE b

\* The coordinator and what it reaches through hass, as one record; events
\* collects the dispatcher signals of the callback that is applied to it
Self ==
    [ _ignore_addresses |-> _ignore_addresses,
      _last_rssi_by_unique_id |-> _last_rssi_by_unique_id,
      _group_ids_by_address |-> _group_ids_by_address,
      _unique_ids_by_address |-> _unique_ids_by_address,
      _unique_ids_by_group_id |-> _unique_ids_by_group_id,
      _addresses_by_group_id |-> _addresses_by_group_id,
      _unavailable_trackers |-> _unavailable_trackers,
      _group_ids_random_macs |-> _group_ids_random_macs,
      _last_seen_by_group_id |-> _last_seen_by_group_id,
      _unavailable_group_ids |-> _unavailable_group_ids,
      _min_rssi |-> _min_rssi,
      entry_data |-> entry_data,
      devices |-> devices,
      bt_watches |-> bt_watches,
      events |-> EmptyBag,
      raised |-> FALSE ]

\* How many signals of this kind the callback that left r sent for id
Sent(r, kind, id) ==
    LET of == {e \in BagToSet(r.events) : e.kind = kind /\ e.id = id}
    IN  BagCardinality([e \in of |-> r.events[e]])

\* An observation the coordinator takes down the fixed-MAC path
fixed_path(s, service_info) ==
    /\ ~rejected(s, service_info)
    /\ group_id_of(parse(service_info)[1]) \notin s._group_ids_random_macs

RECURSIVE fixed_heard(_, _)
\* The addresses observed on the fixed-MAC path while q is processed from s
fixed_heard(s, q) ==
    IF q = <<>> THEN {}
    ELSE (IF fixed_path(s, Head(q)) THEN {Head(q).address} ELSE {})
         \cup fixed_heard(_async_update_ibeacon(s, Head(q)), Tail(q))

\* The fields after a callback that left r, and the history of its signals;
\* heard are the addresses it observed on the fixed-MAC path
Record(r, heard) ==
    /\ _ignore_addresses' = r._ignore_addresses
    /\ _last_rssi_by_unique_id' = r._last_rssi_by_unique_id
    /\ _group_ids_by_address' = r._group_ids_by_address
    /\ _unique_ids_by_address' = r._unique_ids_by_address
    /\ _unique_ids_by_group_id' = r._unique_ids_by_group_id
    /\ _addresses_by_group_id' = r._addresses_by_group_id
    /\ _unavailable_trackers' = r._unavailable_trackers
    /\ _group_ids_random_macs' = r._group_ids_random_macs
    /\ _last_seen_by_group_id' = r._last_seen_by_group_id
    /\ _unavailable_group_ids' = r._unavailable_group_ids
    /\ _min_rssi' = r._min_rssi
    /\ entry_data' = r.entry_data
    /\ devices' = r.devices
    /\ bt_watches' = r.bt_watches
    /\ raised' = r.raised
    /\ UNCHANGED << name_input, name_output >>
    /\ LET signalled == {e.id : e \in BagToSet(r.events)}
           seen(id) == id \in signalled /\ Sent(r, "new", id) + Sent(r, "seen", id) > 0
           unavailable(id) == IF id \in signalled THEN Sent(r, "unavailable", id) ELSE 0
       IN  /\ new_count' =
                 [id \in Ids |->
                     IF id \in signalled
                     THEN Min(2, new_count[id] + Sent(r, "new", id))
                     ELSE new_count[id]]
           /\ unavailable_count' =
                 [id \in Ids |->
                     IF seen(id) THEN 0
                     ELSE Min(2, unavailable_count[id] + unavailable(id))]
           /\ unavailable_unheard' =
                 [id \in Ids |->
                     IF seen(id) THEN 0
                     ELSE IF Len(id) = 4 /\ id[4] \in heard THEN 0
                     ELSE Min(2, unavailable_unheard[id] + unavailable(id))]

\* Commit(left, heard): the callback's result is computed once, then recorded
Commit(left, heard) == \E r \in {left} : \E h \in {heard} : Record(r, h)

\* The device identifiers an earlier run may have left in the registry
RegistryCandidates ==
    {<<IBEACON_DOMAIN, u>> : u \in { <<"U1", "1", "1", "A2">>, <<"U2", "1", "1">> }}

\* What a run of the integration can leave behind: a group has a device of
\* its own or devices per address, never both; no device of an ignored
\* address; fewer than MAX_IDS groups per address and addresses per group
\* (at MAX_IDS the devices are purged).
RegistryConsistent(reg, ignored) ==
    LET ids == {d[2] : d \in {x \in reg : x[1] = IBEACON_DOMAIN}}
        fixed == {u \in ids : Len(u) = 4}
    IN  /\ \A u \in fixed : SubSeq(u, 1, 3) \notin ids /\ u[4] \notin ignored
        /\ \A a \in Addresses : Cardinality({u \in fixed : u[4] = a}) < MAX_IDS
        /\ \A g \in GroupIds : Cardinality({u \in fixed : SubSeq(u, 1, 3) = g}) < MAX_IDS

\* The ignore lists an earlier run may have persisted
IgnoreCandidates == {{}, {"A3"}}

Init ==
    /\ entry_data \in {sorted(S) : S \in IgnoreCandidates}
    /\ _ignore_addresses = SeqToSet(entry_data)
    /\ _last_rssi_by_unique_id = EmptyDict
    /\ _group_ids_by_address = EmptyDict
    /\ _unique_ids_by_address = EmptyDict
    /\ _unique_ids_by_group_id = EmptyDict
    /\ _addresses_by_group_id = EmptyDict
    /\ _unavailable_trackers = {}
    /\ _group_ids_random_macs = {}
    /\ _last_seen_by_group_id = EmptyDict
    /\ _unavailable_group_ids = {}
    /\ _min_rssi = DEFAULT_MIN_RSSI
    /\ devices \in {reg \in SUBSET RegistryCandidates :
                       RegistryConsistent(reg, _ignore_addresses)}
    /\ bt_watches = [a \in Addresses |-> 0]
    /\ now = 0
    /\ phase = "init"
    /\ raised = FALSE
    /\ new_count = [id \in Ids |-> 0]
    /\ unavailable_count = [id \in Ids |-> 0]
    /\ unavailable_unheard = [id \in Ids |-> 0]
    /\ name_input = <<>>
    /\ name_output = <<>>

\* What bluetooth has discovered when the integration starts
\* (the loop of lines 368-375 runs the advertisement callback on each entry, so
\* a longer list is a start followed by Advertise steps at the same time)
Discovered ==
    {<<>>} \cup {<<si>> : si \in ServiceInfos(0)}

\* async_start: restore from the registry, replay what bluetooth has discovered
AsyncStart(discovered) ==
    /\ phase = "init"
    /\ phase' = "running"
    /\ now' = now
    /\ Commit(async_start(Self, discovered),
              fixed_heard(_async_restore_from_registry(Self), discovered))

\* bluetooth delivers an advertisement to _async_update_ibeacon
Advertise(service_info) ==
    /\ phase = "running"
    /\ UNCHANGED << now, phase >>
    /\ Commit(_async_update_ibeacon(Self, service_info), fixed_heard(Self, <<service_info>>))

\* bluetooth has not heard an address for its timeout, and calls the callback
\* that async_track_unavailable registered for it
AddressUnavailable(address) ==
    /\ phase = "running"
    /\ bt_watches[address] > 0
    /\ UNCHANGED << now, phase >>
    /\ Commit(_async_handle_unavailable(Self, address), {})

\* The answers of bluetooth.async_last_service_info during one sweep.  The
\* latest advertisement of an address may be one the coordinator rejected or
\* was never called for (a change of rssi alone), so it is any service info
\* of that address; heard holds the latest advertisements, oldest first.
last_service_info(heard) ==
    [a \in Addresses |->
        LET at == {i \in 1..Len(heard) : heard[i].address = a}
        IN  IF at = {} THEN <<>>
            ELSE << heard[CHOOSE i \in at : \A j \in at : j <= i] >>]

\* What bluetooth answers during one sweep.  The loop of lines 300-317 handles
\* the addresses independently, so a sweep with answers for several addresses
\* is a sequence of sweeps at the same time with one answer each.
Heard(t) == {<<>>} \cup {<<si>> : si \in ServiceInfos(t)}

\* The periodic _async_update
Update(heard) ==
    /\ phase = "running"
    /\ UNCHANGED << now, phase >>
    /\ Commit(_async_update(Self, now, last_service_info(heard)), {})

\* Time passes
Tick ==
    /\ now < MaxTime
    /\ now' = now + 1
    /\ phase' = phase
    /\ Commit(Self, {})

\* The entry is unloaded: _async_stop
Stop ==
    /\ phase = "running"
    /\ phase' = "stopped"
    /\ now' = now
    /\ Commit(_async_stop(Self), {})

Next ==
    \/ \E d \in Discovered : AsyncStart(d)
    \/ \E si \in ServiceInfos(now) : Advertise(si)
    \/ \E a \in Addresses : AddressUnavailable(a)
    \/ \E heard \in Heard(now) : Update(heard)
    \/ Tick
    \/ Stop

Spec == Init /\ [][Next]_vars

----------------------------------------------------------------------------
(* Vocabulary of the properties *)

\* The accepted observations of the current state
Accepted == {si \in ServiceInfos(now) : ~rejected(Self, si)}

ParsedOf(si) == parse(si)[1]
GroupOf(si) == group_id_of(ParsedOf(si))
UniqueOf(si) == unique_id_of(GroupOf(si), si.address)

\* The identity an accepted observation is tracked under
IdentityOf(s, si) ==
    IF GroupOf(si) \in s._group_ids_random_macs THEN GroupOf(si) ELSE UniqueOf(si)

\* An accepted observation on the fixed-MAC path
FixedPath(s, si) == GroupOf(si) \notin s._group_ids_random_macs

\* The coordinator in the middle of the fixed-MAC path, before the anomaly checks
Recorded(s, si) == record_unique_address(s, GroupOf(si), si)

\* With this observation the address has MAX_IDS distinct group ids recorded
ReachesMaxGroups(s, si) ==
    /\ FixedPath(s, si)
    /\ Cardinality(Recorded(s, si)._group_ids_by_address[si.address]) >= MAX_IDS

\* With this observation the group has MAX_IDS distinct addresses recorded
ReachesMaxAddresses(s, si) ==
    /\ FixedPath(s, si)
    /\ Cardinality(Recorded(s, si)._addresses_by_group_id[GroupOf(si)]) >= MAX_IDS

\* The coordinator after a callback, ready for the next one
After(r) == [r EXCEPT !.events = EmptyBag, !.raised = FALSE]

Only(signal) == SetToBag({signal})

----------------------------------------------------------------------------
(* C1: processing an accepted observation of an identity that has had no    *)
(* new-device signal, with neither anomaly triggered, sends exactly one     *)
(* DeviceNew for it, and processing the same observation again sends        *)
(* exactly one DeviceSeen for it; and no identity ever gets a second        *)
(* DeviceNew within a run.                                                  *)
C1_Idempotence ==
    /\ \A id \in Ids : new_count[id] <= 1
    /\ phase = "running" =>
          \A si \in Accepted :
              LET id == IdentityOf(Self, si)
                  first == _async_update_ibeacon(Self, si)
                  second == _async_update_ibeacon(After(first), si)
              IN  (new_count[id] = 0 /\ ~ReachesMaxGroups(Self, si) /\ ~ReachesMaxAddresses(Self, si))
                  => /\ first.events = Only(DeviceNew(id, ParsedOf(si)))
                     /\ second.events = Only(DeviceSeen(id, ParsedOf(si)))

\* The first call has been made: the identity has its one DeviceNew, and the
\* same observation now is answered with DeviceSeen
C1_Witness ==
    /\ phase = "running"
    /\ \E si \in Accepted :
          /\ new_count[UniqueOf(si)] = 1
          /\ _async_update_ibeacon(Self, si).events = Only(DeviceSeen(UniqueOf(si), ParsedOf(si)))
    /\ \E si \in Accepted :
          /\ new_count[GroupOf(si)] = 1
          /\ _async_update_ibeacon(Self, si).events = Only(DeviceSeen(GroupOf(si), ParsedOf(si)))

----------------------------------------------------------------------------
(* Vocabulary of the tracking structures *)

\* The group ids in the random-MAC structures
RandomGroups == _group_ids_random_macs \cup DOMAIN _last_seen_by_group_id

\* The group ids in a fixed-MAC tracking structure
FixedGroups ==
    (DOMAIN _unique_ids_by_group_id) \cup (DOMAIN _addresses_by_group_id)
    \cup UNION {_group_ids_by_address[a] : a \in DOMAIN _group_ids_by_address}

\* The unique ids in a fixed-MAC map
FixedUniqueIds ==
    (DOMAIN _last_rssi_by_unique_id)
    \cup UNION {_unique_ids_by_address[a] : a \in DOMAIN _unique_ids_by_address}
    \cup UNION {_unique_ids_by_group_id[g] : g \in DOMAIN _unique_ids_by_group_id}

\* The addresses in a tracking map
TrackedAddresses ==
    (DOMAIN _group_ids_by_address) \cup (DOMAIN _unique_ids_by_address)
    \cup _unavailable_trackers
    \cup UNION {_addresses_by_group_id[g] : g \in DOMAIN _addresses_by_group_id}

----------------------------------------------------------------------------
(* C2: no group id is at once in the random-MAC structures and in a         *)
(* fixed-MAC tracking structure (_unique_ids_by_group_id,                   *)
(* _addresses_by_group_id, or a set of _group_ids_by_address).              *)
C2_RegimeExclusive == RandomGroups \cap FixedGroups = {}

----------------------------------------------------------------------------
(* C5: for every group of the fixed-MAC regime the number of addresses      *)
(* recorded is at most MAX_IDS while an observation is processed and below  *)
(* MAX_IDS after every completed callback.                                  *)
C5_GroupBound ==
    /\ \A g \in DOMAIN _addresses_by_group_id :
          Cardinality(_addresses_by_group_id[g]) < MAX_IDS
    /\ phase = "running" =>
          \A si \in Accepted :
              FixedPath(Self, si) =>
                  \A g \in DOMAIN Recorded(Self, si)._addresses_by_group_id :
                      Cardinality(Recorded(Self, si)._addresses_by_group_id[g]) <= MAX_IDS

----------------------------------------------------------------------------
(* C6: a group in random-MAC tracking has no unique id left in any          *)
(* fixed-MAC map: _unique_ids_by_group_id, the sets of                      *)
(* _unique_ids_by_address, _last_rssi_by_unique_id.                         *)
C6_NoFixedIdOfRandomGroup ==
    \A u \in FixedUniqueIds : SubSeq(u, 1, 3) \notin _group_ids_random_macs

----------------------------------------------------------------------------
(* C7: an ignored address is in no tracking map: no key of                  *)
(* _group_ids_by_address, _unique_ids_by_address, _unavailable_trackers, no *)
(* member of a set of _addresses_by_group_id, and none of its unique ids is *)
(* in a set of _unique_ids_by_group_id or in _last_rssi_by_unique_id.       *)
C7_IgnoredUntracked ==
    /\ _ignore_addresses \cap TrackedAddresses = {}
    /\ \A u \in FixedUniqueIds : u[4] \notin _ignore_addresses

----------------------------------------------------------------------------
(* What one callback can leave, from the current state *)

Processed == {_async_update_ibeacon(Self, si) : si \in ServiceInfos(now)}
Swept == {_async_update(Self, now, last_service_info(h)) : h \in Heard(now)}
Expired == {_async_handle_unavailable(Self, a) : a \in {x \in Addresses : bt_watches[x] > 0}}
Results == Processed \cup Swept \cup Expired \cup {_async_stop(Self)}

----------------------------------------------------------------------------
----------------------------------------------------------------------------
----------------------------------------------------------------------------
(* C8: the observation with which an address X has MAX_IDS distinct group   *)
(* ids leaves X ignored, the persisted ignore list equal to the ignore set, *)
(* no device record and no cached rssi for any unique id of X, no           *)
(* unavailability watch for X, and sends no signal.                         *)
C8_IgnoreRemediation ==
    phase = "running" =>
        \A si \in Accepted :
            ReachesMaxGroups(Self, si) =>
                LET r == _async_update_ibeacon(Self, si)
                    X == si.address
                IN  /\ X \in r._ignore_addresses
                    /\ r.entry_data = sorted(r._ignore_addresses)
                    /\ \A u \in UniqueIds :
                          u[4] = X => /\ <<IBEACON_DOMAIN, u>> \notin r.devices
                                      /\ ~Has(r._last_rssi_by_unique_id, u)
                    /\ X \notin r._unavailable_trackers
                    /\ r.bt_watches[X] = 0
                    /\ r.events = EmptyBag
                    /\ ~r.raised

\* The remediation has run for an address that had devices: it is ignored
\* and persisted, and the devices announced for it are gone
C8_Witness ==
    /\ phase = "running"
    /\ "A1" \in _ignore_addresses
    /\ "A1" \in SeqToSet(entry_data)
    /\ \E u \in UniqueIds :
          u[4] = "A1" /\ new_count[u] = 1 /\ <<IBEACON_DOMAIN, u>> \notin devices

----------------------------------------------------------------------------
(* C9 as stated: the observation with which a group G has MAX_IDS distinct  *)
(* addresses moves G to random-MAC tracking and sends exactly one signal,   *)
(* DeviceNew of G; every later accepted observation of G sends DeviceSeen   *)
(* of G and records no fixed unique id.                                     *)
SeenOnlyAfterReclassify ==
    \A si \in Accepted :
        (~FixedPath(Self, si) /\ new_count[GroupOf(si)] = 1) =>
            LET r == _async_update_ibeacon(Self, si)
            IN  /\ r.events = Only(DeviceSeen(GroupOf(si), ParsedOf(si)))
                /\ r._last_rssi_by_unique_id = _last_rssi_by_unique_id
                /\ r._unique_ids_by_address = _unique_ids_by_address
                /\ r._unique_ids_by_group_id = _unique_ids_by_group_id
                /\ r._group_ids_random_macs = _group_ids_random_macs

----------------------------------------------------------------------------
(* C10: for a random-MAC group last observed at T and not flagged           *)
(* unavailable, a sweep at now <= T + UNAVAILABLE_TIMEOUT sends no          *)
(* DeviceUnavailable for it and a sweep at now > T + UNAVAILABLE_TIMEOUT    *)
(* sends exactly one and flags it; a sweep sends nothing for a flagged      *)
(* group, the flag stays until the group is observed again, and so the      *)
(* group is reported once per disappearance.                                *)
C10_SweepTiming ==
    /\ \A g \in _unavailable_group_ids : unavailable_count[g] = 1
    /\ \A g \in GroupIds : unavailable_count[g] <= 1
    /\ phase = "running" =>
          \A g \in DOMAIN _last_seen_by_group_id :
              \A r \in Swept :
                  IF g \in _unavailable_group_ids
                  THEN Sent(r, "unavailable", g) = 0 /\ g \in r._unavailable_group_ids
                  ELSE IF now <= _last_seen_by_group_id[g] + UNAVAILABLE_TIMEOUT
                  THEN Sent(r, "unavailable", g) = 0 /\ g \notin r._unavailable_group_ids
                  ELSE Sent(r, "unavailable", g) = 1 /\ g \in r._unavailable_group_ids

\* A group has been reported by a sweep later than its timeout
C10_Witness ==
    \E g \in _unavailable_group_ids :
        /\ unavailable_count[g] = 1
        /\ now > _last_seen_by_group_id[g] + UNAVAILABLE_TIMEOUT

----------------------------------------------------------------------------
(* The coordinator right after _async_restore_from_registry *)
Restored == _async_restore_from_registry(Self)

\* An identifier the restore has seeded and no observation has matched yet:
\* a random-MAC group without a last service info, or a unique id in the
\* fixed-MAC maps without a cached rssi (of a live address and group)
SeededUnobserved(id) ==
    IF Len(id) = 3
    THEN id \in _group_ids_random_macs /\ ~Has(_last_seen_by_group_id, id)
    ELSE /\ Has(_unique_ids_by_address, id[4])
         /\ id \in _unique_ids_by_address[id[4]]
         /\ ~Has(_last_rssi_by_unique_id, id)
         /\ SubSeq(id, 1, 3) \notin _group_ids_random_macs
         /\ id[4] \notin _ignore_addresses

(* C11: _async_restore_from_registry sends no signal, and the first         *)
(* accepted observation of an identifier it has seeded from the registry    *)
(* (a unique id with its address, or a group id) sends DeviceSeen for it    *)
(* and no DeviceNew.                                                        *)
C11_RestoreSuppressesNew ==
    /\ phase = "init" => Restored.events = EmptyBag
    /\ phase = "running" =>
          \A si \in Accepted :
              LET id == IdentityOf(Self, si) IN
              SeededUnobserved(id) =>
                  _async_update_ibeacon(Self, si).events = Only(DeviceSeen(id, ParsedOf(si)))

----------------------------------------------------------------------------
(* Vocabulary of the unavailability watches *)

\* The address is in the fixed-MAC maps keyed by address
Tracked(a) == Has(_unique_ids_by_address, a) /\ Has(_group_ids_by_address, a)

\* The address is known to have been observed on the fixed-MAC path: one of
\* its unique ids has a cached rssi or has been announced
ObservedFixed(a) ==
    \E u \in UniqueIds :
        u[4] = a /\ (Has(_last_rssi_by_unique_id, u) \/ new_count[u] >= 1)

(* C12 as stated: before shutdown the addresses with an unavailability      *)
(* watch are exactly the non-ignored addresses that are tracked in the      *)
(* fixed-MAC maps and have been observed on the fixed-MAC path, also after  *)
(* _async_handle_unavailable has fired.                                     *)
C12_WatchPerObservedAddress ==
    phase = "running" =>
        /\ \A a \in _unavailable_trackers : a \notin _ignore_addresses /\ Tracked(a)
        /\ \A a \in Addresses :
              (a \notin _ignore_addresses /\ Tracked(a) /\ ObservedFixed(a))
                  => a \in _unavailable_trackers

(* C12, amended: before shutdown an address with a watch is not ignored and *)
(* is tracked in the fixed-MAC maps, and bluetooth holds exactly one         *)
(* callback per watch.  A watch is created by an accepted fixed-MAC          *)
(* observation of the address that does not get it ignored; it is removed    *)
(* by _async_handle_unavailable, which leaves the address tracked without a  *)
(* watch until its next fixed-MAC observation, and by ignoring the address;  *)
(* no other callback before shutdown changes the watches.                    *)
C12_WatchUntilReported ==
    phase = "running" =>
        /\ \A a \in _unavailable_trackers : a \notin _ignore_addresses /\ Tracked(a)
        /\ \A a \in Addresses :
              bt_watches[a] = IF a \in _unavailable_trackers THEN 1 ELSE 0
        /\ \A a \in _unavailable_trackers :
              LET r == _async_handle_unavailable(Self, a)
              IN  /\ r._unavailable_trackers = _unavailable_trackers \ {a}
                  /\ Has(r._unique_ids_by_address, a)
                  /\ Has(r._group_ids_by_address, a)
                  /\ a \notin r._ignore_addresses
        /\ \A si \in ServiceInfos(now) :
              LET r == _async_update_ibeacon(Self, si) IN
              r._unavailable_trackers =
                  IF rejected(Self, si) \/ ~FixedPath(Self, si) THEN _unavailable_trackers
                  ELSE IF ReachesMaxGroups(Self, si)
                  THEN _unavailable_trackers \ {si.address}
                  ELSE _unavailable_trackers \cup {si.address}
        /\ \A h \in Heard(now) :
              _async_update(Self, now, last_service_info(h))._unavailable_trackers
                  = _unavailable_trackers

\* The watch of an observed address has fired and the address is still
\* tracked, while another address is watched
C12_Witness ==
    /\ phase = "running"
    /\ \E a \in Addresses :
          /\ a \notin _ignore_addresses /\ Tracked(a) /\ ObservedFixed(a)
          /\ a \notin _unavailable_trackers
          /\ \E u \in _unique_ids_by_address[a] : unavailable_count[u] = 1
    /\ _unavailable_trackers # {}

----------------------------------------------------------------------------
(* C13: every unique id that occurs in a fixed-MAC structure                *)
(* (_unique_ids_by_address, _unique_ids_by_group_id,                        *)
(* _last_rssi_by_unique_id) is in the set of exactly one address in         *)
(* _unique_ids_by_address and of exactly one group in                       *)
(* _unique_ids_by_group_id: those of its own address and group id.          *)
C13_UniqueIdMembership ==
    \A u \in FixedUniqueIds :
        /\ {a \in DOMAIN _unique_ids_by_address : u \in _unique_ids_by_address[a]}
              = {u[4]}
        /\ {g \in DOMAIN _unique_ids_by_group_id : u \in _unique_ids_by_group_id[g]}
              = {SubSeq(u, 1, 3)}

----------------------------------------------------------------------------
(* async_name on its own: the arguments are drawn at the start, one step    *)
(* applies the function to them.                                            *)

\* Bluetooth addresses, as bluetooth reports them: delimited by colons
NameAddresses ==
    { <<"A", "A", ":", "B", "B", ":", "C", "C", ":", "D", "D", ":", "E", "E", ":", "0", "1">>,
      <<"a", "a", ":", "b", "b", ":", "c", "c", ":", "d", "d", ":", "e", "e", ":", "0", "2">>,
      <<"A", "A", ":", "B", "B", ":", "C", "C", ":", "D", "D", ":", "0", "e", ":", "F", "3">> }

\* What a device may advertise as its name: the address as bluetooth fills it
\* in for a nameless device (delimited by ":", "-" or "_"), or a name of its own
NamesOf(address) ==
    { Replace(address, ":", d) : d \in {":", "-", "_"} }
    \cup { <<"T", "a", "g">>, <<"T", "a", "g", " ", "E", "E", "0", "1">>, <<"T", "a", "g", " ", "e", "e", "0", "1">> }

\* The parsed advertisement with its fields as async_name formats them
NameBeacons ==
    { [uuid |-> <<"U", "1">>, major |-> 1, minor |-> 1],
      [uuid |-> <<"U", "1">>, major |-> 1, minor |-> 12],
      [uuid |-> <<"U", "2">>, major |-> 300, minor |-> 0] }

NameInputs ==
    UNION { { [service_info |-> [address |-> a, name |-> n],
               parsed |-> p, unique_address |-> f] :
                  n \in NamesOf(a), p \in NameBeacons, f \in BOOLEAN } :
            a \in NameAddresses }

NameInit ==
    /\ name_input \in {<<i>> : i \in NameInputs}
    /\ name_output = <<>>
    /\ entry_data = <<>>
    /\ _ignore_addresses = {}
    /\ _last_rssi_by_unique_id = EmptyDict
    /\ _group_ids_by_address = EmptyDict
    /\ _unique_ids_by_address = EmptyDict
    /\ _unique_ids_by_group_id = EmptyDict
    /\ _addresses_by_group_id = EmptyDict
    /\ _unavailable_trackers = {}
    /\ _group_ids_random_macs = {}
    /\ _last_seen_by_group_id = EmptyDict
    /\ _unavailable_group_ids = {}
    /\ _min_rssi = DEFAULT_MIN_RSSI
    /\ devices = {}
    /\ bt_watches = [a \in Addresses |-> 0]
    /\ now = 0
    /\ phase = "init"
    /\ raised = FALSE
    /\ new_count = [id \in Ids |-> 0]
    /\ unavailable_count = [id \in Ids |-> 0]
    /\ unavailable_unheard = [id \in Ids |-> 0]

\* _async_dispatch_update computes the name of a new device
ComputeName ==
    /\ name_input # <<>>
    /\ name_output = <<>>
    /\ name_output' = << async_name(name_input[1].service_info, name_input[1].parsed,
                                    name_input[1].unique_address) >>
    /\ UNCHANGED << _ignore_addresses, _last_rssi_by_unique_id, _group_ids_by_address,
                    _unique_ids_by_address, _unique_ids_by_group_id, _addresses_by_group_id,
                    _unavailable_trackers, _group_ids_random_macs, _last_seen_by_group_id,
                    _unavailable_group_ids, _min_rssi, entry_data, devices, bt_watches,
                    now, phase, raised, new_count, unavailable_count, unavailable_unheard,
                    name_input >>

NameNext == ComputeName

NameSpec == NameInit /\ [][NameNext]_vars

\* The address delimited by hyphens
HyphenForm(address) == Replace(Replace(address, "-", ":"), ":", "-")
\* The address delimited by colons
ColonForm(address) == Replace(address, "-", ":")

\* The two last octets of the address, upper-case
Disambiguator(address) ==
    LET octets == Split(ColonForm(address), ":")
    IN  Upper(octets[Len(octets) - 1]) \o Upper(octets[Len(octets)])

\* "<uuid> <major>.<minor>"
Synthesized(parsed) ==
    parsed.uuid \o <<" ">> \o Decimal(parsed.major) \o <<".">> \o Decimal(parsed.minor)

(* C14: the name async_name returns is "<uuid> <major>.<minor>" when the    *)
(* advertised name is the address in its colon- or hyphen-delimited form    *)
(* and the advertised name otherwise, followed for a fixed-MAC identity by  *)
(* a space and the upper-case two last octets of the address unless the     *)
(* base name ends with them already; nothing is appended for a random-MAC   *)
(* identity.                                                                *)
C14_DisplayName ==
    name_output # <<>> =>
        LET service_info == name_input[1].service_info
            base == IF service_info.name \in {ColonForm(service_info.address),
                                              HyphenForm(service_info.address)}
                    THEN Synthesized(name_input[1].parsed)
                    ELSE service_info.name
            short == Disambiguator(service_info.address)
        IN  name_output[1] =
                IF name_input[1].unique_address /\ ~EndsWith(base, short)
                THEN base \o <<" ">> \o short
                ELSE base

----------------------------------------------------------------------------
\* The observations the claim calls rejected, in the current state
IgnoredAddress(si) == si.address \in _ignore_addresses
WeakSignal(si) == si.rssi < _min_rssi
Unparsable(si) == si.payload = <<>>

(* C15: an observation whose address is ignored, whose rssi is below the    *)
(* configured minimum or which does not parse as an iBeacon sends no signal *)
(* and leaves every field of the coordinator, the watches and the registry  *)
(* as they were: as an advertisement, and when async_start replays it.      *)
C15_RejectedNoOp ==
    /\ phase = "running" =>
          \A si \in ServiceInfos(now) :
              (IgnoredAddress(si) \/ WeakSignal(si) \/ Unparsable(si))
                  => _async_update_ibeacon(Self, si) = Self
    /\ phase = "init" =>
          \A si \in ServiceInfos(now) :
              (IgnoredAddress(si) \/ WeakSignal(si) \/ Unparsable(si))
                  => async_start(Self, <<si>>) = Restored

\* A coordinator with state in both regimes, a watch and an ignored address,
\* for which observations of each rejected kind leave Self
C15_Witness ==
    /\ phase = "running"
    /\ _last_rssi_by_unique_id # EmptyDict
    /\ _last_seen_by_group_id # EmptyDict
    /\ _unavailable_trackers # {}
    /\ \E si \in ServiceInfos(now) :
          IgnoredAddress(si) /\ ~WeakSignal(si) /\ ~Unparsable(si)
          /\ _async_update_ibeacon(Self, si) = Self
    /\ \E si \in ServiceInfos(now) :
          ~IgnoredAddress(si) /\ WeakSignal(si) /\ ~Unparsable(si)
          /\ _async_update_ibeacon(Self, si) = Self
    /\ \E si \in ServiceInfos(now) :
          ~IgnoredAddress(si) /\ ~WeakSignal(si) /\ Unparsable(si)
          /\ _async_update_ibeacon(Self, si) = Self

----------------------------------------------------------------------------
(* C16: one call of _async_update_ibeacon ignores the address or            *)
(* reclassifies the group, never both; the address is ignored exactly when  *)
(* it has MAX_IDS group ids with the observation, the group is reclassified *)
(* exactly when it has MAX_IDS addresses and the address is not ignored;    *)
(* and the call sends no signal when the address is ignored and exactly one *)
(* signal otherwise for an accepted observation, none for a rejected one.   *)
C16_AnomalyExclusive ==
    phase = "running" =>
        /\ \A si \in Accepted :
              LET r == _async_update_ibeacon(Self, si)
                  ignored == r._ignore_addresses # _ignore_addresses
                  reclassified == r._group_ids_random_macs # _group_ids_random_macs
              IN  /\ ~(ignored /\ reclassified)
                  /\ ignored <=> ReachesMaxGroups(Self, si)
                  /\ reclassified <=> (ReachesMaxAddresses(Self, si) /\ ~ReachesMaxGroups(Self, si))
                  /\ ignored => r._ignore_addresses = _ignore_addresses \cup {si.address}
                  /\ reclassified =>
                        r._group_ids_random_macs = _group_ids_random_macs \cup {GroupOf(si)}
                  /\ BagCardinality(r.events) = IF ignored THEN 0 ELSE 1
        /\ \A si \in ServiceInfos(now) \ Accepted :
              _async_update_ibeacon(Self, si).events = EmptyBag

\* Both thresholds were met by one observation: its address is ignored and
\* the group still has its MAX_IDS addresses in the fixed-MAC maps
C16_Witness ==
    /\ phase = "running"
    /\ \E a \in _ignore_addresses :
          \E g \in DOMAIN _addresses_by_group_id :
              /\ a \in _addresses_by_group_id[g]
              /\ Cardinality(_addresses_by_group_id[g]) >= MAX_IDS
              /\ g \notin _group_ids_random_macs

----------------------------------------------------------------------------
(* C17: in every state a callback leaves, an address has at most one        *)
(* registered unavailability watch and none has been cancelled that was not *)
(* registered; the registered watches are those whose cancel callback the   *)
(* coordinator holds, so each is cancelled once; an ignored address has no  *)
(* watch; and after _async_stop no watch is registered and                  *)
(* _unavailable_trackers is empty.                                          *)
C17_WatchDiscipline ==
    /\ \A a \in Addresses : bt_watches[a] \in {0, 1}
    /\ \A a \in Addresses : bt_watches[a] = 1 <=> a \in _unavailable_trackers
    /\ \A a \in _ignore_addresses : bt_watches[a] = 0
    /\ phase = "stopped" =>
          _unavailable_trackers = {} /\ \A a \in Addresses : bt_watches[a] = 0
    /\ phase = "running" =>
          LET r == _async_stop(Self)
          IN  r._unavailable_trackers = {} /\ \A a \in Addresses : r.bt_watches[a] = 0

\* The coordinator was stopped with addresses tracked, after an address was
\* ignored during the run
C17_Witness ==
    /\ phase = "stopped"
    /\ \E a \in Addresses : a \notin _ignore_addresses /\ Tracked(a) /\ ObservedFixed(a)
    /\ \E u \in UniqueIds : u[4] \in _ignore_addresses /\ new_count[u] = 1

----------------------------------------------------------------------------
(* C18: no callback looks up an absent key.  No callback has ended in a     *)
(* KeyError, in any state a callback leaves;                                *)
(* an address whose watch can fire has its tracker and its set in           *)
(* _unique_ids_by_address; and at the anomaly checks of the fixed-MAC path  *)
(* the address has its tracker and its sets in _unique_ids_by_address and   *)
(* _group_ids_by_address, and the group its sets in _unique_ids_by_group_id *)
(* and _addresses_by_group_id.                                              *)
C18_NoMissingEntry ==
    /\ ~raised
    /\ phase = "running" =>
          /\ \A a \in Addresses :
                bt_watches[a] > 0 =>
                    a \in _unavailable_trackers /\ Has(_unique_ids_by_address, a)
          /\ \A si \in Accepted :
                FixedPath(Self, si) =>
                    LET m == Recorded(Self, si) IN
                    /\ si.address \in m._unavailable_trackers
                    /\ Has(m._unique_ids_by_address, si.address)
                    /\ Has(m._group_ids_by_address, si.address)
                    /\ Has(m._unique_ids_by_group_id, GroupOf(si))
                    /\ Has(m._addresses_by_group_id, GroupOf(si))

\* An address has been ignored, a group has been reclassified and a watch
\* has fired, all without a KeyError
C18_Witness ==
    /\ ~raised
    /\ \E u \in UniqueIds : u[4] \in _ignore_addresses /\ new_count[u] = 1
    /\ \E u \in UniqueIds : SubSeq(u, 1, 3) \in _group_ids_random_macs /\ new_count[u] = 1
    /\ \E u \in UniqueIds : unavailable_count[u] >= 1

----------------------------------------------------------------------------
(* C19: every DeviceSeen signal, of _async_update_ibeacon and of the sweep  *)
(* (_async_update_rssi), carries the uuid, major and minor of the group id  *)
(* its id starts with.                                                      *)
C19_SeenCarriesOwnFields ==
    phase = "running" =>
        \A r \in Processed \cup Swept :
            \A e \in BagToSet(r.events) :
                e.kind = "seen" => group_id_of(e.parsed[1]) = SubSeq(e.id, 1, 3)

----------------------------------------------------------------------------
\* A unique id that has been purged: it was filed under its address and its
\* group, and since then its group was reclassified (which drops the group's
\* set and leaves the address's) or its address was ignored (which drops the
\* address's set and leaves the group's)
Purged(u) ==
    \/ /\ SubSeq(u, 1, 3) \in _group_ids_random_macs
       /\ Has(_unique_ids_by_address, u[4])
       /\ u \in _unique_ids_by_address[u[4]]
    \/ /\ u[4] \in _ignore_addresses
       /\ Has(_unique_ids_by_group_id, SubSeq(u, 1, 3))
       /\ u \in _unique_ids_by_group_id[SubSeq(u, 1, 3)]

(* C20: no callback sends a DeviceNew, DeviceSeen or DeviceUnavailable      *)
(* signal for a unique id that has been purged: not an observation, not     *)
(* _async_handle_unavailable, not the sweep.                                *)
C20_NoSignalForPurged ==
    phase = "running" =>
        \A r \in Results :
            \A e \in BagToSet(r.events) :
                Len(e.id) = 4 => ~Purged(e.id)

====
